---- MODULE Spec2Model ----
(***************************************************************************)
(* A model of src/reader.py: ScanData, the decoder of a CPSA scan file.    *)
(*                                                                         *)
(* The file is a sequence of bytes (0..255).  The decoder's state is the   *)
(* cursor of the open file, the header, the two staging buffers, the two   *)
(* output tables, the trailer and the position of the control flow in      *)
(* __init__ / _parse / _parse_header / _parse_data / _parse_trailer.       *)
(*                                                                         *)
(* Numbers.  Python computes the scaled quantities in binary floating      *)
(* point; the model computes them exactly, as integers counted in the      *)
(* unit 5e-6 (so 1e-5 is 2 units, 1e-4 is 20 units, 1e-2 is 2000 units).   *)
(* Every scaled quantity of the program (pixel_size, frame_width,          *)
(* frame_height, x_position, y_position, focus, d, x, y and the d/x/y      *)
(* bounds) is a number of such units.  Rounding is therefore not           *)
(* modelled; the raw values of the modelled files are small integers.     *)
(* np.inf and -np.inf are the extended numbers PosInf and NegInf.          *)
(***************************************************************************)
EXTENDS Integers, Sequences, FiniteSets, TLC

VARIABLES
    scan,           \* the logical content the input file was written from
    drop,           \* how many bytes are missing from the end of the file
    file,           \* the bytes of the file at `path`
    cfg,            \* the arguments of __init__ (buffer sizes, six bounds)
    pc,             \* where the control flow of __init__ is
    pos,            \* self._f's cursor
    header,         \* self.header (None until _parse_header has returned)
    num_frames,     \* _parse_data's local
    done_frames,    \* how many iterations of the frame loop have completed
    cur,            \* the frame loop's locals number, x_position, ...
    arrays,         \* d_array, e_array, c_array, a_array, x_array, y_array
    zi,             \* how many tuples of the zip have been handled
    frame_buffer,   \* _parse_data's local list
    track_buffer,   \* _parse_data's local list
    frames,         \* self.frames, as the sequence of its rows
    tracks,         \* self.tracks, as the sequence of its rows
    trailer,        \* self.trailer
    exc,            \* the exception raised, if any
    starved         \* the first reader operation that got fewer bytes than it asked for

vars == <<scan, drop, file, cfg, pc, pos, header, num_frames, done_frames, cur,
          arrays, zi, frame_buffer, track_buffer, frames, tracks, trailer, exc,
          starved>>

None == [none |-> TRUE]

Min(a, b) == IF a <= b THEN a ELSE b
Max(a, b) == IF a >= b THEN a ELSE b

(***************************************************************************)
(* Extended numbers: <<0, v>> is the finite v, <<1, 0>> is np.inf,         *)
(* <<-1, 0>> is -np.inf.  ExtLt is Python's < on them.                     *)
(***************************************************************************)
Fin(v) == <<0, v>>
PosInf == <<1, 0>>
NegInf == <<-1, 0>>
ExtLt(a, b) == \/ a[1] < b[1]
               \/ a[1] = 0 /\ b[1] = 0 /\ a[2] < b[2]

(***************************************************************************)
(* struct: sizes and little-endian decoding.                               *)
(***************************************************************************)
\* every code four bytes wide
calcsize_wide(code) == 4

calcsize(code) == CASE code = "i" -> 4
                    [] code = "f" -> 4
                    [] code = "h" -> 2
                    [] code = "b" -> 1

RECURSIVE Pow2(_)
Pow2(n) == IF n <= 0 THEN 1 ELSE 2 * Pow2(n - 1)

\* struct.unpack('<i'), '<h', '<b': two's complement, least significant byte first.
unpack_i(data) == data[1] + 256 * data[2] + 65536 * data[3]
                  + 16777216 * (IF data[4] >= 128 THEN data[4] - 256 ELSE data[4])
unpack_h(data) == data[1] + 256 * (IF data[2] >= 128 THEN data[2] - 256 ELSE data[2])
unpack_b(data) == IF data[1] >= 128 THEN data[1] - 256 ELSE data[1]

\* struct.unpack('<f'): IEEE 754 binary32, sign / 8-bit exponent / 23-bit
\* fraction.  The value is (2^23 + fraction) * 2^(exponent - 150); the model
\* keeps its integer part (the modelled files hold whole numbers), zero for
\* exponent 0.  Infinities and NaN (exponent 255) are outside the model.
unpack_f(data) ==
    LET sign     == IF data[4] >= 128 THEN -1 ELSE 1
        exponent == (data[4] % 128) * 2 + (data[3] \div 128)
        fraction == (data[3] % 128) * 65536 + data[2] * 256 + data[1]
        mant     == 8388608 + fraction
    IN  IF exponent = 0 THEN 0
        ELSE IF exponent >= 150 THEN sign * mant * Pow2(exponent - 150)
        ELSE IF exponent < 127 THEN 0
        ELSE sign * (mant \div Pow2(150 - exponent))

unpack(code, data) == CASE code = "i" -> unpack_i(data)
                        [] code = "f" -> unpack_f(data)
                        [] code = "h" -> unpack_h(data)
                        [] code = "b" -> unpack_b(data)

(***************************************************************************)
(* The reader.  f.read(n) returns the next n bytes, or the fewer that      *)
(* remain, and moves the cursor past what it returned.                     *)
(***************************************************************************)
f_read(f, p, n) == SubSeq(f, p + 1, Min(p + n, Len(f)))

\* a reader that pads a short read with zero bytes instead of raising
get_next_value_lenient(f, p, code) ==
    LET size == calcsize(code)
        data == f_read(f, p, size)
    IN  [ok |-> TRUE, val |-> IF Len(data) = size THEN unpack(code, data) ELSE 0,
         pos |-> p + Len(data), short |-> Len(data) < size]

\* get_next_value(code): reads calcsize(code) bytes and unpacks them;
\* struct.unpack raises struct.error when it is given fewer bytes.
get_next_value(f, p, code) ==
    LET size == calcsize(code)
        data == f_read(f, p, size)
    IN  IF Len(data) = size
        THEN [ok |-> TRUE, val |-> unpack(code, data), pos |-> p + size, short |-> FALSE]
        ELSE [ok |-> FALSE, val |-> 0, pos |-> p + Len(data), short |-> TRUE]

\* skip(n): reads n bytes and drops them; the length of what was read is not looked at.
skip(f, p, n) ==
    LET data == f_read(f, p, n)
    IN  [ok |-> TRUE, val |-> 0, pos |-> p + Len(data), short |-> Len(data) < n]

Get(code) == [op |-> "get", code |-> code, n |-> 0]
Skip(n)   == [op |-> "skip", code |-> "", n |-> n]

ReaderOp(f, p, o) == IF o.op = "get" THEN get_next_value(f, p, o.code) ELSE skip(f, p, o.n)

\* The reader operations `ops` run one after the other from cursor p, as a
\* run of consecutive calls in the source does, up to the first that raises.
\* vals are the values returned so far (0 for a skip), short names the first
\* operation that was given fewer bytes than it asked for.
RECURSIVE RunReads(_, _, _, _, _)
RunReads(f, p, ops, vals, short) ==
    IF ops = <<>> THEN [ok |-> TRUE, pos |-> p, vals |-> vals, short |-> short]
    ELSE LET r  == ReaderOp(f, p, Head(ops))
             sh == IF short = "none" /\ r.short THEN Head(ops).op ELSE short
         IN  IF r.ok
             THEN RunReads(f, r.pos, Tail(ops), Append(vals, r.val), sh)
             ELSE [ok |-> FALSE, pos |-> r.pos, vals |-> vals, short |-> sh]

Repeat(o, n) == [k \in 1..n |-> o]

(***************************************************************************)
(* Scaling.  A raw value times 1e-4, 1e-5 or 1e-2, in units of 5e-6.       *)
(***************************************************************************)
Times1em4(v) == 20 * v
Times1em5(v) == 2 * v
Times1em2(v) == 2000 * v
\* 0.5 * v, for v a whole number of pixels times pixel_size (a multiple of 20 units)
Half(v) == v \div 2

(***************************************************************************)
(* _parse_header: twelve reads in a fixed order, then the two widths are   *)
(* multiplied by the (already scaled) pixel size.                          *)
(***************************************************************************)
HeaderOps == <<Get("i"), Get("i"), Get("i"), Get("i"), Get("f"), Get("f"),
               Get("i"), Get("i"), Get("i"), Get("i"), Get("i"), Get("i")>>

HeaderOf(v) ==
    LET pixel_size == Times1em4(v[5])
    IN  [version_number     |-> v[1],
         num_x_frames       |-> v[2],
         num_y_frames       |-> v[3],
         num_bins           |-> v[4],
         pixel_size         |-> pixel_size,
         pixels_per_bin     |-> v[6],
         border_limit       |-> v[7],
         contrast_limit     |-> v[8],
         eccentricity_limit |-> v[9],
         M                  |-> v[10],
         frame_width        |-> v[11] * pixel_size,
         frame_height       |-> v[12] * pixel_size]

Starved(short) == IF starved = "none" THEN short ELSE starved

ParseHeader ==
    /\ pc = "header"
    /\ LET r == RunReads(file, pos, HeaderOps, <<>>, "none")
       IN  /\ pos' = r.pos
           /\ starved' = Starved(r.short)
           /\ IF r.ok
              THEN /\ header' = HeaderOf(r.vals)
                   /\ pc' = "parse_data"
                   /\ exc' = exc
              ELSE /\ header' = header
                   /\ pc' = "except"
                   /\ exc' = "struct.error"
    /\ UNCHANGED <<scan, drop, file, cfg, num_frames, done_frames, cur, arrays, zi,
                   frame_buffer, track_buffer, frames, tracks, trailer>>

(***************************************************************************)
(* _parse_data.                                                            *)
(***************************************************************************)
\* lines 61-63: the two empty buffers and the number of frames
ParseDataStart ==
    /\ pc = "parse_data"
    /\ frame_buffer' = <<>>
    /\ track_buffer' = <<>>
    /\ num_frames' = header.num_x_frames * header.num_y_frames
    /\ done_frames' = 0
    /\ pc' = "loop"
    /\ UNCHANGED <<scan, drop, file, cfg, pos, header, cur, arrays, zi, frames, tracks,
                   trailer, exc, starved>>

FrameOps == <<Get("i"), Get("i"), Get("i"), Get("i"), Skip(12), Get("i"), Get("i"), Get("i")>>

FrameOf(v) ==
    [number           |-> v[1],
     x_position       |-> Times1em5(v[2]),
     y_position       |-> Times1em5(v[3]),
     num_tracks       |-> v[4],
     focus            |-> Times1em2(v[6]),
     x_position_index |-> v[7],
     y_position_index |-> v[8]]

\* lines 65-83: one more iteration of the loop over range(num_frames): the
\* frame descriptor is read and appended to frame_buffer
ReadFrame ==
    /\ pc = "loop"
    /\ done_frames < num_frames
    /\ LET r == RunReads(file, pos, FrameOps, <<>>, "none")
       IN  /\ pos' = r.pos
           /\ starved' = Starved(r.short)
           /\ IF r.ok
              THEN /\ cur' = FrameOf(r.vals)
                   /\ frame_buffer' = Append(frame_buffer, FrameOf(r.vals))
                   /\ pc' = "frame_check"
                   /\ exc' = exc
              ELSE /\ cur' = cur
                   /\ frame_buffer' = frame_buffer
                   /\ pc' = "finally"
                   /\ exc' = "struct.error"
    /\ UNCHANGED <<scan, drop, file, cfg, header, num_frames, done_frames, arrays, zi,
                   track_buffer, frames, tracks, trailer>>

\* len(buffer) > size
Full_Over(buffer, size) == ExtLt(size, Fin(Len(buffer)))

\* len(buffer) >= size
Full(buffer, size) == ~ExtLt(Fin(Len(buffer)), size)

\* a flush that puts the staged records in front of the table
Flush_Front(table, buffer) == buffer \o table

\* lines 86 and 117: pd.concat([table, pd.DataFrame(buffer)], ignore_index=True)
Flush(table, buffer) == table \o buffer

\* lines 85-87
FrameCheck ==
    /\ pc = "frame_check"
    /\ IF Full(frame_buffer, cfg.frame_buffer_size)
       THEN /\ frames' = Flush(frames, frame_buffer)
            /\ frame_buffer' = <<>>
       ELSE UNCHANGED <<frames, frame_buffer>>
    /\ pc' = "arrays"
    /\ UNCHANGED <<scan, drop, file, cfg, pos, header, num_frames, done_frames, cur,
                   arrays, zi, track_buffer, tracks, trailer, exc, starved>>

\* lines 89-94: six arrays of num_tracks values each, one array after the
\* other (range(n) is empty for n <= 0)
ArrayOps(n) == Repeat(Get("h"), n) \o Repeat(Get("b"), n) \o Repeat(Get("b"), n)
               \o Repeat(Get("b"), n) \o Repeat(Get("h"), n) \o Repeat(Get("h"), n)

ArraysOf(v, n) ==
    [d |-> SubSeq(v, 1, n),
     e |-> SubSeq(v, n + 1, 2 * n),
     c |-> SubSeq(v, 2 * n + 1, 3 * n),
     a |-> SubSeq(v, 3 * n + 1, 4 * n),
     x |-> SubSeq(v, 4 * n + 1, 5 * n),
     y |-> SubSeq(v, 5 * n + 1, 6 * n)]

NoArrays == ArraysOf(<<>>, 0)

ReadArrays ==
    /\ pc = "arrays"
    /\ LET n == Max(cur.num_tracks, 0)
           r == RunReads(file, pos, ArrayOps(cur.num_tracks), <<>>, "none")
       IN  /\ pos' = r.pos
           /\ starved' = Starved(r.short)
           /\ IF r.ok
              THEN /\ arrays' = ArraysOf(r.vals, n)
                   /\ zi' = 0
                   /\ pc' = "zip"
                   /\ exc' = exc
              ELSE /\ UNCHANGED <<arrays, zi>>
                   /\ pc' = "finally"
                   /\ exc' = "struct.error"
    /\ UNCHANGED <<scan, drop, file, cfg, header, num_frames, done_frames, cur,
                   frame_buffer, track_buffer, frames, tracks, trailer>>

\* the diameter scaled by 10 instead of 100
TrackOf_Tenfold(h, fr, d, e, c, a, x, y) ==
    [frame_number |-> fr.number,
     d |-> 10 * d * h.pixel_size,
     x |-> fr.x_position - Half(h.frame_width) + x * h.pixel_size,
     y |-> fr.y_position - Half(h.frame_height) + y * h.pixel_size,
     e |-> e,
     c |-> c,
     a |-> a]

\* lines 97-99 and 114: the track record of raw values d, e, c, a, x, y
TrackOf(h, fr, d, e, c, a, x, y) ==
    [frame_number |-> fr.number,
     d |-> 100 * d * h.pixel_size,
     x |-> fr.x_position - Half(h.frame_width) + x * h.pixel_size,
     y |-> fr.y_position - Half(h.frame_height) + y * h.pixel_size,
     e |-> e,
     c |-> c,
     a |-> a]

\* v <= bounds[0] or v >= bounds[1]
Outside_Open(v, bounds) == ~ExtLt(bounds[1], Fin(v)) \/ ~ExtLt(Fin(v), bounds[2])

\* v < bounds[0] or v > bounds[1]
Outside(v, bounds) == ExtLt(Fin(v), bounds[1]) \/ ExtLt(bounds[2], Fin(v))

\* lines 101-112: whether one of the six tests says `continue`
Rejected(t, k) ==
    \/ Outside(t.d, k.d_bounds)
    \/ Outside(t.e, k.e_bounds)
    \/ Outside(t.c, k.c_bounds)
    \/ Outside(t.a, k.a_bounds)
    \/ Outside(t.x, k.x_bounds)
    \/ Outside(t.y, k.y_bounds)

\* lines 96-114: the next tuple of the zip
ZipTrack ==
    /\ pc = "zip"
    /\ zi < Len(arrays.d)
    /\ LET k == zi + 1
           t == TrackOf(header, cur, arrays.d[k], arrays.e[k], arrays.c[k],
                        arrays.a[k], arrays.x[k], arrays.y[k])
       IN  IF Rejected(t, cfg)
           THEN UNCHANGED <<track_buffer, pc>>
           ELSE /\ track_buffer' = Append(track_buffer, t)
                /\ pc' = "track_check"
    /\ zi' = zi + 1
    /\ UNCHANGED <<scan, drop, file, cfg, pos, header, num_frames, done_frames, cur,
                   arrays, frame_buffer, frames, tracks, trailer, exc, starved>>

\* lines 116-118
TrackCheck ==
    /\ pc = "track_check"
    /\ IF Full(track_buffer, cfg.track_buffer_size)
       THEN /\ tracks' = Flush(tracks, track_buffer)
            /\ track_buffer' = <<>>
       ELSE UNCHANGED <<tracks, track_buffer>>
    /\ pc' = "zip"
    /\ UNCHANGED <<scan, drop, file, cfg, pos, header, num_frames, done_frames, cur,
                   arrays, zi, frame_buffer, frames, trailer, exc, starved>>

\* the zip is exhausted: on to the next frame
ZipDone ==
    /\ pc = "zip"
    /\ zi >= Len(arrays.d)
    /\ done_frames' = done_frames + 1
    /\ pc' = "loop"
    /\ UNCHANGED <<scan, drop, file, cfg, pos, header, num_frames, cur, arrays, zi,
                   frame_buffer, track_buffer, frames, tracks, trailer, exc, starved>>

\* range(num_frames) is exhausted
LoopDone ==
    /\ pc = "loop"
    /\ done_frames >= num_frames
    /\ pc' = "finally"
    /\ UNCHANGED <<scan, drop, file, cfg, pos, header, num_frames, done_frames, cur,
                   arrays, zi, frame_buffer, track_buffer, frames, tracks, trailer, exc,
                   starved>>

\* a `finally` that flushes nothing
FlushRest_Dropped(table, buffer) == table

\* lines 119-123: what is still staged goes to the tables; _parse_data then
\* returns or re-raises, and its two local lists are gone with it
FlushRest(table, buffer) == IF buffer # <<>> THEN Flush(table, buffer) ELSE table

Finally ==
    /\ pc = "finally"
    /\ frames' = FlushRest(frames, frame_buffer)
    /\ tracks' = FlushRest(tracks, track_buffer)
    /\ frame_buffer' = <<>>
    /\ track_buffer' = <<>>
    /\ pc' = IF exc # "none" THEN "except" ELSE "trailer"
    /\ UNCHANGED <<scan, drop, file, cfg, pos, header, num_frames, done_frames, cur,
                   arrays, zi, trailer, exc, starved>>

(***************************************************************************)
(* _parse_trailer: skip(4), then everything that is left, decoded as       *)
(* latin-1: the character of a byte b is the code point b.                 *)
(***************************************************************************)
\* a trailer that starts right after the last frame block
ParseTrailer_NoGap ==
    /\ pc = "trailer"
    /\ trailer' = [str |-> f_read(file, pos, Len(file))]
    /\ pos' = Len(file)
    /\ pc' = "done"
    /\ UNCHANGED <<scan, drop, file, cfg, header, num_frames, done_frames, cur, arrays,
                   zi, frame_buffer, track_buffer, frames, tracks, exc, starved>>

\* A str is the record of its code points (a record, as None is).
decode_latin1(data) == [str |-> [k \in 1..Len(data) |-> data[k]]]

ParseTrailer ==
    /\ pc = "trailer"
    /\ LET s    == skip(file, pos, 4)
           data == f_read(file, s.pos, Len(file))
       IN  /\ trailer' = decode_latin1(data)
           /\ pos' = s.pos + Len(data)
           /\ starved' = Starved(IF s.short THEN "skip" ELSE "none")
    /\ pc' = "done"
    /\ UNCHANGED <<scan, drop, file, cfg, header, num_frames, done_frames, cur, arrays,
                   zi, frame_buffer, track_buffer, frames, tracks, exc>>

\* lines 34-35: __init__ catches the exception and prints it
Except ==
    /\ pc = "except"
    /\ pc' = "done"
    /\ UNCHANGED <<scan, drop, file, cfg, pos, header, num_frames, done_frames, cur,
                   arrays, zi, frame_buffer, track_buffer, frames, tracks, trailer, exc,
                   starved>>

Next ==
    \/ ParseHeader
    \/ ParseDataStart
    \/ ReadFrame
    \/ FrameCheck
    \/ ReadArrays
    \/ ZipTrack
    \/ TrackCheck
    \/ ZipDone
    \/ LoopDone
    \/ Finally
    \/ ParseTrailer
    \/ Except

(***************************************************************************)
(* The input files.  A file is written from a logical content `scan` (the  *)
(* layout the decoder reads: header, frame blocks, a 4-byte gap, the       *)
(* trailer) and then loses its last `drop` bytes.                          *)
(***************************************************************************)
MaxFrames  == 2    \* num_y_frames of a written file is at most this
MaxTracks  == 2    \* num_tracks of a written frame is at most this
MaxTrailer == 1    \* the trailer of a written file has at most this many bytes
MaxDrop    == 17   \* at most this many bytes are missing from the end

\* struct.pack, the inverse of unpack, for the values the files are written from
pack_i(v) == <<v % 256, (v \div 256) % 256, (v \div 65536) % 256, (v \div 16777216) % 256>>
pack_h(v) == <<v % 256, (v \div 256) % 256>>
pack_b(v) == <<v % 256>>

RECURSIVE Log2(_)
Log2(v) == IF v < 2 THEN 0 ELSE 1 + Log2(v \div 2)

\* the binary32 of a whole number v, 0 <= |v| < 2^24
pack_f(v) ==
    LET m    == IF v < 0 THEN -v ELSE v
        e    == Log2(m)
        bits == IF m = 0 THEN 0 ELSE (e + 127) * 8388608 + (m - Pow2(e)) * Pow2(23 - e)
        b    == pack_i(bits)
    IN  <<b[1], b[2], b[3], b[4] + (IF v < 0 THEN 128 ELSE 0)>>

RECURSIVE Flatten(_)
Flatten(ss) == IF ss = <<>> THEN <<>> ELSE Head(ss) \o Flatten(Tail(ss))

Column(ts, f(_)) == Flatten([k \in 1..Len(ts) |-> f(ts[k])])

PackD(t) == pack_h(t.d)
PackE(t) == pack_b(t.e)
PackC(t) == pack_b(t.c)
PackA(t) == pack_b(t.a)
PackX(t) == pack_h(t.x)
PackY(t) == pack_h(t.y)

FrameBytes(fr) ==
    pack_i(fr.number) \o pack_i(fr.x_raw) \o pack_i(fr.y_raw) \o pack_i(fr.num_tracks)
    \o [k \in 1..12 |-> 0]
    \o pack_i(fr.focus_raw) \o pack_i(fr.x_index) \o pack_i(fr.y_index)
    \o Column(fr.tracks, PackD) \o Column(fr.tracks, PackE) \o Column(fr.tracks, PackC)
    \o Column(fr.tracks, PackA) \o Column(fr.tracks, PackX) \o Column(fr.tracks, PackY)

HeaderBytes(sc) ==
    pack_i(sc.version_number) \o pack_i(sc.num_x_frames) \o pack_i(sc.num_y_frames)
    \o pack_i(sc.num_bins) \o pack_f(sc.pixel_size_raw) \o pack_f(sc.pixels_per_bin)
    \o pack_i(sc.border_limit) \o pack_i(sc.contrast_limit)
    \o pack_i(sc.eccentricity_limit) \o pack_i(sc.M)
    \o pack_i(sc.frame_width_raw) \o pack_i(sc.frame_height_raw)

ScanBytes(sc) ==
    HeaderBytes(sc)
    \o Flatten([k \in 1..Len(sc.frames) |-> FrameBytes(sc.frames[k])])
    \o <<0, 0, 0, 0>>
    \o sc.trailer

\* Raw tracks d, e, c, a, x, y the files are written from.  The first two
\* are the tracks of the spec's concrete scenario.
Raw(d, e, c, a, x, y) == [d |-> d, e |-> e, c |-> c, a |-> a, x |-> x, y |-> y]

TrackSamples ==
    <<Raw(10, 1, 3, 5, 5, 0),
      Raw(20, 2, 4, 6, -5, 0),
      Raw(10, -1, 3, 5, 5, 0),
      Raw(5, 2, 4, 6, -5, -1),
      Raw(-10, 1, 3, 5, 5, 0),
      Raw(10, 1, 3, 5, 6, 0),
      Raw(10, 1, -3, 5, 5, 0),
      Raw(10, 1, 3, 5, 5, 1),
      Raw(10, 1, 3, -5, 5, 0),
      Raw(10, 1, 3, 7, 5, 0)>>

\* n consecutive samples from the one numbered `start` on, cyclically
SampleRun(start, n) ==
    [k \in 1..n |-> TrackSamples[((start + k - 2) % Len(TrackSamples)) + 1]]

\* The frame written at (0-based) place i: num_tracks nt, tracks from sample `start`
WrittenFrame(i, nt, start) ==
    [number     |-> 7 + i,
     x_raw      |-> 100000 * (i + 1),
     y_raw      |-> -50000 * i,
     num_tracks |-> nt,
     focus_raw  |-> 250 + i,
     x_index    |-> i,
     y_index    |-> 0,
     tracks     |-> SampleRun(start, nt)]

TrailerText == <<84, 76, 65, 43>>

WrittenScan(nx, ny, ps, frs, tl) ==
    [version_number     |-> 1,
     num_x_frames       |-> nx,
     num_y_frames       |-> ny,
     num_bins           |-> 3,
     pixel_size_raw     |-> ps,
     pixels_per_bin     |-> 1,
     border_limit       |-> 5,
     contrast_limit     |-> 50,
     eccentricity_limit |-> 15,
     M                  |-> 1,
     frame_width_raw    |-> 100,
     frame_height_raw   |-> 100,
     frames             |-> frs,
     trailer            |-> SubSeq(TrailerText, 1, tl)]

\* frame grids: no frame at all, or a column of num_y_frames frames
Grids == {0, 1} \X (1..MaxFrames)

\* The sequences of n written frames.  The frames at even places have one
\* num_tracks in -1..MaxTracks and the frames at odd places another; the
\* tracks of the frame at place i are the samples from Starts' choice plus 2i on.
FrameSeqs(n, Starts) ==
    {[k \in 1..n |-> WrittenFrame(k - 1, nts[(k - 1) % 2], sts[(k - 1) % 2] + 2 * (k - 1))] :
        nts \in [0..1 -> -1..MaxTracks], sts \in [0..1 -> Starts]}

(***************************************************************************)
(* The arguments of __init__.                                              *)
(***************************************************************************)
Unbounded == <<NegInf, PosInf>>
NonNegative == <<Fin(0), PosInf>>

\* defaults that bound nothing
DefaultBounds_Open ==
    [d_bounds |-> Unbounded, e_bounds |-> Unbounded, c_bounds |-> Unbounded,
     a_bounds |-> Unbounded, x_bounds |-> Unbounded, y_bounds |-> Unbounded]

\* line 9: the defaults of the six bounds
DefaultBounds ==
    [d_bounds |-> NonNegative, e_bounds |-> NonNegative, c_bounds |-> NonNegative,
     a_bounds |-> NonNegative, x_bounds |-> Unbounded, y_bounds |-> Unbounded]

\* all six intervals (-inf, +inf)
NoBounds ==
    [d_bounds |-> Unbounded, e_bounds |-> Unbounded, c_bounds |-> Unbounded,
     a_bounds |-> Unbounded, x_bounds |-> Unbounded, y_bounds |-> Unbounded]

\* d_bounds = (0, 0.15), the others unbounded: the spec's concrete scenario
ScenarioBounds == [NoBounds EXCEPT !.d_bounds = <<Fin(0), Fin(30000)>>]

\* finite intervals on all six fields; with pixel size 2.0 the first sample
\* track has d, x and y on an upper bound and e, c, a on a lower bound
TightBounds ==
    [d_bounds |-> <<Fin(20000), Fin(40000)>>,
     e_bounds |-> <<Fin(1), Fin(2)>>,
     c_bounds |-> <<Fin(3), Fin(4)>>,
     a_bounds |-> <<Fin(5), Fin(6)>>,
     x_bounds |-> <<Fin(197800), Fin(198200)>>,
     y_bounds |-> <<Fin(-2040), Fin(-2000)>>]

BufferSizes == {Fin(0), Fin(1), Fin(2), PosInf}

Config(fbs, tbs, b) ==
    [frame_buffer_size |-> fbs, track_buffer_size |-> tbs,
     d_bounds |-> b.d_bounds, e_bounds |-> b.e_bounds, c_bounds |-> b.c_bounds,
     a_bounds |-> b.a_bounds, x_bounds |-> b.x_bounds, y_bounds |-> b.y_bounds]

(***************************************************************************)
(* The state after lines 10-28 of __init__, with the file about to be read.*)
(***************************************************************************)
NoFrame == FrameOf(<<0, 0, 0, 0, 0, 0, 0, 0>>)

Start(sc, bytes, dr, k) ==
    /\ scan = sc
    /\ drop = dr
    /\ file = SubSeq(bytes, 1, Len(bytes) - dr)
    /\ cfg = k
    /\ pc = "header"
    /\ pos = 0
    /\ header = None
    /\ num_frames = 0
    /\ done_frames = 0
    /\ cur = NoFrame
    /\ arrays = NoArrays
    /\ zi = 0
    /\ frame_buffer = <<>>
    /\ track_buffer = <<>>
    /\ frames = <<>>
    /\ tracks = <<>>
    /\ trailer = None
    /\ exc = "none"
    /\ starved = "none"

\* Files of every grid and every num_tracks, with an empty or a longest
\* trailer, any capacities, the default bounds
Init ==
    \E g \in Grids, tl \in {0, MaxTrailer} :
       \E frs \in FrameSeqs(g[1] * g[2], {1}) :
          LET sc    == WrittenScan(g[1], g[2], 2, frs, tl)
              bytes == ScanBytes(sc)
          IN  \E dr \in 0..MaxDrop, fbs \in BufferSizes, tbs \in BufferSizes :
                 Start(sc, bytes, dr, Config(fbs, tbs, DefaultBounds))

Spec == Init /\ [][Next]_vars

\* Files of one frame at most, whole or cut short, tracks from any sample,
\* any of the bounds
InitFilter ==
    \E g \in {<<0, 1>>, <<1, 1>>}, ps \in {1, 2} :
       \E frs \in FrameSeqs(g[1] * g[2], 1..Len(TrackSamples)) :
          LET sc    == WrittenScan(g[1], g[2], ps, frs, 0)
              bytes == ScanBytes(sc)
          IN  \E dr \in {0, MaxDrop}, fbs \in {Fin(1), PosInf}, tbs \in {Fin(1), PosInf},
                 b \in {DefaultBounds, NoBounds, ScenarioBounds, TightBounds} :
                 Start(sc, bytes, dr, Config(fbs, tbs, b))

SpecFilter == InitFilter /\ [][Next]_vars

(***************************************************************************)
(* What the file holds, read off the content it was written from.          *)
(***************************************************************************)
ExtLe(a, b) == \/ a[1] < b[1]
               \/ a[1] = b[1] /\ (a[1] # 0 \/ a[2] <= b[2])

\* v lies in the closed interval b
Within(v, b) == ExtLe(b[1], Fin(v)) /\ ExtLe(Fin(v), b[2])

WithinAll(t, k) ==
    /\ Within(t.d, k.d_bounds) /\ Within(t.e, k.e_bounds) /\ Within(t.c, k.c_bounds)
    /\ Within(t.a, k.a_bounds) /\ Within(t.x, k.x_bounds) /\ Within(t.y, k.y_bounds)

GridSize == scan.num_x_frames * scan.num_y_frames

\* pixel_size = 1e-4 * raw, in units of 5e-6
WrittenPixelSize == 20 * scan.pixel_size_raw

\* the frame record of the k-th written frame
WrittenRecord(k) ==
    LET fr == scan.frames[k]
    IN  [number           |-> fr.number,
         x_position       |-> 2 * fr.x_raw,
         y_position       |-> 2 * fr.y_raw,
         num_tracks       |-> fr.num_tracks,
         focus            |-> 2000 * fr.focus_raw,
         x_position_index |-> fr.x_index,
         y_position_index |-> fr.y_index]

\* the track record of the j-th track of the k-th written frame
WrittenTrack(k, j) ==
    LET fr == scan.frames[k]
        t  == fr.tracks[j]
        ps == WrittenPixelSize
    IN  [frame_number |-> fr.number,
         d |-> 100 * t.d * ps,
         x |-> 2 * fr.x_raw - (scan.frame_width_raw * ps) \div 2 + t.x * ps,
         y |-> 2 * fr.y_raw - (scan.frame_height_raw * ps) \div 2 + t.y * ps,
         e |-> t.e,
         c |-> t.c,
         a |-> t.a]

WrittenRecords(n) == [k \in 1..n |-> WrittenRecord(k)]

\* the first m track records of the k-th written frame
WrittenTracksOf(k, m) == [j \in 1..m |-> WrittenTrack(k, j)]

\* the track records of the first n written frames, in file order
RECURSIVE WrittenTracks(_)
WrittenTracks(n) ==
    IF n <= 0 THEN <<>>
    ELSE WrittenTracks(n - 1) \o WrittenTracksOf(n, Len(scan.frames[n].tracks))

InBounds(t) == WithinAll(t, cfg)
Kept(ts) == SelectSeq(ts, InBounds)

\* the offset of the first byte after the first n frame blocks: the header is
\* twelve 4-byte fields, a descriptor is seven 4-byte fields and 12 reserved
\* bytes, a track is 2 + 1 + 1 + 1 + 2 + 2 bytes
RECURSIVE BlockEnd(_)
BlockEnd(n) ==
    IF n <= 0 THEN 48 ELSE BlockEnd(n - 1) + 40 + 9 * Len(scan.frames[n].tracks)

\* how many frame descriptors, and how many whole frame blocks, the file holds
Descriptors == Cardinality({k \in 1..Len(scan.frames) : BlockEnd(k - 1) + 40 <= Len(file)})
WholeBlocks == Cardinality({k \in 1..Len(scan.frames) : BlockEnd(k) <= Len(file)})

Finished == pc = "done"
WholeFile == drop = 0

(***************************************************************************)
(* C1.  For a whole file (nothing cut off) and any buffer capacities, when  *)
(* decoding has finished the frames table holds exactly                    *)
(* num_x_frames * num_y_frames records: the records of the written         *)
(* frames, in file order.                                                  *)
(***************************************************************************)
C1_Cardinality ==
    (Finished /\ WholeFile)
        => /\ Len(frames) = GridSize
           /\ frames = WrittenRecords(GridSize)

C1_Witness ==
    /\ Finished /\ WholeFile
    /\ Len(frames) = 2
    /\ cfg.frame_buffer_size = PosInf
    /\ exc = "none"

\* the file ends inside the track arrays of its K-th frame
EndsInArrays(K) ==
    /\ K \in 1..Len(scan.frames)
    /\ BlockEnd(K - 1) + 40 <= Len(file)
    /\ Len(file) < BlockEnd(K)

(***************************************************************************)
(* C2.  For a file that ends inside the track arrays of its K-th frame,    *)
(* decoding ends with the frame records of the frames up to and including  *)
(* K in the frames table, the track records of the frames before K that    *)
(* pass the bounds (and none of frame K) in the tracks table, nothing      *)
(* staged, and an error raised.                                            *)
(***************************************************************************)
C2_PartialFlush ==
    \A K \in 1..Len(scan.frames) :
        (Finished /\ EndsInArrays(K))
            => /\ frames = WrittenRecords(K)
               /\ tracks = Kept(WrittenTracks(K - 1))
               /\ frame_buffer = <<>>
               /\ track_buffer = <<>>
               /\ exc = "struct.error"

C2_Witness ==
    /\ Finished /\ EndsInArrays(2)
    /\ cfg.frame_buffer_size = PosInf
    /\ cfg.track_buffer_size = PosInf
    /\ Len(frames) = 2
    /\ Len(tracks) = 2
    /\ exc = "struct.error"

(***************************************************************************)
(* C3.  The two tables decoding ends with are determined by the bytes of   *)
(* the file and the bounds alone: whatever the two capacities (0, 1, 2 or  *)
(* unbounded), the frames table is the records of the descriptors the file *)
(* holds and the tracks table is the tracks within bounds of the whole     *)
(* frame blocks it holds, in file order, whether decoding completes or     *)
(* aborts.                                                                 *)
(***************************************************************************)
C3_BufferingTransparency ==
    Finished
        => /\ frames = IF header = None THEN <<>>
                       ELSE WrittenRecords(Descriptors)
           /\ tracks = IF header = None THEN <<>>
                       ELSE Kept(WrittenTracks(WholeBlocks))

C3_Witness ==
    /\ Finished
    /\ cfg.frame_buffer_size = Fin(1)
    /\ cfg.track_buffer_size = Fin(2)
    /\ Len(frames) = 2
    /\ Len(tracks) = 3

BoundsOf(k) ==
    [d_bounds |-> k.d_bounds, e_bounds |-> k.e_bounds, c_bounds |-> k.c_bounds,
     a_bounds |-> k.a_bounds, x_bounds |-> k.x_bounds, y_bounds |-> k.y_bounds]

Range(q) == {q[k] : k \in 1..Len(q)}

AllWrittenTracks == WrittenTracks(Len(scan.frames))

(***************************************************************************)
(* C4.  A decoded track is in the tracks table if and only if each of its  *)
(* six fields (d, x, y converted, e, c, a raw) lies in its closed          *)
(* interval, a value on a bound included; a track outside an interval is   *)
(* never staged nor emitted; with six intervals (-inf, +inf) every decoded *)
(* track is emitted.                                                       *)
(***************************************************************************)
C4_BoundsFilter ==
    /\ \A t \in Range(tracks) \cup Range(track_buffer) : WithinAll(t, cfg)
    /\ (Finished /\ WholeFile) => tracks = Kept(AllWrittenTracks)
    /\ (Finished /\ WholeFile /\ BoundsOf(cfg) = NoBounds) => tracks = AllWrittenTracks

C4_Witness ==
    /\ Finished /\ WholeFile
    /\ BoundsOf(cfg) = TightBounds
    /\ Len(AllWrittenTracks) = 2
    /\ Len(tracks) = 1
    /\ tracks[1].d = TightBounds.d_bounds[2][2]
    /\ tracks[1].x = TightBounds.x_bounds[2][2]
    /\ tracks[1].e = TightBounds.e_bounds[1][2]

NonNegativeTrack(t) == t.d >= 0 /\ t.e >= 0 /\ t.c >= 0 /\ t.a >= 0

ScenarioFile ==
    /\ WholeFile
    /\ scan.num_x_frames = 1 /\ scan.num_y_frames = 1
    /\ scan.pixel_size_raw = 2
    /\ scan.frames[1].x_raw = 100000
    /\ scan.frames[1].num_tracks = 2
    /\ scan.frames[1].tracks = <<Raw(10, 1, 3, 5, 5, 0), Raw(20, 2, 4, 6, -5, 0)>>

(***************************************************************************)
(* C6, as claimed.  In the scenario, decoding with d_bounds = (0, 0.15)    *)
(* leaves exactly one track in the output, track 1.                        *)
(***************************************************************************)
C6_KeepsTrackOne ==
    (Finished /\ ScenarioFile /\ BoundsOf(cfg) = ScenarioBounds)
        => tracks = <<WrittenTrack(1, 2)>>

(***************************************************************************)
(* C6, amended.  In the scenario track 0's converted d is 0.2 and track    *)
(* 1's is 0.4, and decoding with d_bounds = (0, 0.15) leaves no track in   *)
(* the output.                                                             *)
(***************************************************************************)
C6_KeepsNoTrack ==
    (Finished /\ ScenarioFile)
        => /\ BoundsOf(cfg) = NoBounds
                => Len(tracks) = 2 /\ tracks[1].d = 40000 /\ tracks[2].d = 80000
           /\ BoundsOf(cfg) = ScenarioBounds => tracks = <<>>

C6_Witness ==
    /\ Finished /\ ScenarioFile
    /\ BoundsOf(cfg) = ScenarioBounds
    /\ exc = "none"
    /\ Len(frames) = 1
    /\ tracks = <<>>

\* the end of the n-th frame block in a layout of 44 header bytes and 8 bytes a track
RECURSIVE ClaimedEnd(_)
ClaimedEnd(n) ==
    IF n <= 0 THEN 44 ELSE ClaimedEnd(n - 1) + 40 + 8 * scan.frames[n].num_tracks

NoNegativeCount == \A k \in 1..Len(scan.frames) : scan.frames[k].num_tracks >= 0

(***************************************************************************)
(* C7, as claimed.  The header decoder advances the cursor by exactly 44   *)
(* bytes and each frame block by exactly 40 + 8 * num_tracks bytes, so     *)
(* the gap of a whole file begins at offset 44 plus the sum of             *)
(* 40 + 8 * num_tracks over its frames.                                    *)
(***************************************************************************)
C7_ClaimedLayout ==
    /\ pc = "parse_data" => pos = 44
    /\ (pc = "loop" /\ NoNegativeCount) => pos = ClaimedEnd(done_frames)
    /\ (pc = "trailer" /\ WholeFile /\ NoNegativeCount) => pos = ClaimedEnd(Len(scan.frames))

\* the end of the n-th frame block, from the num_tracks fields
RECURSIVE LayoutEnd(_)
LayoutEnd(n) ==
    IF n <= 0 THEN 48 ELSE LayoutEnd(n - 1) + 40 + 9 * Max(scan.frames[n].num_tracks, 0)

(***************************************************************************)
(* C7, amended.  The header decoder advances the cursor by exactly 48      *)
(* bytes (twelve 4-byte fields) and each frame block by exactly            *)
(* 40 + 9 * num_tracks bytes (40 when num_tracks is negative), so the gap  *)
(* begins at offset 48 plus the sum of 40 + 9 * num_tracks over the        *)
(* frames.                                                                 *)
(***************************************************************************)
C7_ByteAccounting ==
    /\ pc = "parse_data" => pos = 48
    /\ pc = "loop" => pos = LayoutEnd(done_frames)
    /\ pc = "trailer" => pos = LayoutEnd(Len(scan.frames))

C7_Witness ==
    /\ pc = "trailer"
    /\ WholeFile
    /\ Len(scan.frames) = 2
    /\ scan.frames[1].num_tracks = 1
    /\ scan.frames[2].num_tracks = 2
    /\ pos = 48 + 49 + 58

(***************************************************************************)
(* C8.  Every reader operation (a read of a value, a skip) that finds      *)
(* fewer bytes left than it must consume aborts decoding with an error:    *)
(* once an operation has been given fewer bytes than it asked for, an      *)
(* exception has been raised.                                              *)
(***************************************************************************)
C8_TruncationIsFatal == starved # "none" => exc # "none"

(***************************************************************************)
(* C9.  The trailer is set only once every frame block has been consumed   *)
(* without error, and is then the bytes of the file after the 4-byte gap   *)
(* that follows the last frame block (empty when there are none); when     *)
(* decoding aborts the trailer stays None.                                 *)
(***************************************************************************)
C9_Trailer ==
    /\ trailer # None
         => /\ Finished
            /\ exc = "none"
            /\ done_frames = Len(scan.frames)
            /\ Len(frames) = Len(scan.frames)
            /\ trailer.str = SubSeq(file, LayoutEnd(Len(scan.frames)) + 4 + 1, Len(file))
            /\ trailer.str = SubSeq(scan.trailer, 1, Max(Len(scan.trailer) - drop, 0))
    /\ exc # "none" => trailer = None
    /\ (Finished /\ exc = "none") => trailer # None

C9_Witness ==
    /\ Finished
    /\ Len(frames) = 2
    /\ Len(tracks) >= 1
    /\ trailer = [str |-> <<84>>]

AtLeastOne(size) == ExtLe(Fin(1), size)

Bounded(buffer, size, checking) ==
    AtLeastOne(size)
        => /\ ExtLe(Fin(Len(buffer)), size)
           /\ ~checking => ExtLt(Fin(Len(buffer)), size)

InFrame == pc \in {"frame_check", "arrays", "zip", "track_check"}
InZip == pc \in {"zip", "track_check"}

(***************************************************************************)
(* C10.  With a capacity of at least 1 a staging buffer never holds more   *)
(* records than its capacity, and holds fewer once the capacity check that *)
(* follows an append is done; a flush moves the whole buffer to the table, *)
(* so that table and buffer together always hold the records decoded and   *)
(* accepted so far, in order.                                              *)
(***************************************************************************)
C10_BoundedStaging ==
    /\ Bounded(frame_buffer, cfg.frame_buffer_size, pc = "frame_check")
    /\ Bounded(track_buffer, cfg.track_buffer_size, pc = "track_check")
    /\ (pc = "loop" \/ InFrame)
         => /\ frames \o frame_buffer
                 = WrittenRecords(done_frames + (IF InFrame THEN 1 ELSE 0))
            /\ tracks \o track_buffer
                 = Kept(WrittenTracks(done_frames)
                        \o (IF InZip THEN WrittenTracksOf(done_frames + 1, zi) ELSE <<>>))
    /\ (pc = "arrays" /\ cfg.frame_buffer_size \in {Fin(0), Fin(1)}) => frame_buffer = <<>>

C10_Witness ==
    /\ pc = "zip"
    /\ cfg.frame_buffer_size = Fin(2)
    /\ cfg.track_buffer_size = Fin(2)
    /\ Len(frames) = 2 /\ frame_buffer = <<>>
    /\ Len(tracks) = 2 /\ Len(track_buffer) = 1
====
